---- MODULE Spec2Model ----
(***************************************************************************)
(* State-machine model of the concurrent retrieval pipeline of main.py:    *)
(* MangaAPIClient (_get_json, fetch_chapters_list, fetch_series_info,      *)
(* fetch_chapter_data, resolve_volume, download_image) and                 *)
(* ChapterDownloader (download_chapter, _create_cbz, download_chapters).   *)
(* One action is one run of a coroutine between two suspension points      *)
(* (an awaited request together with the sleep that follows it).           *)
(* Text (paths, file names, numbers as the API sends them) is modelled as  *)
(* sequences of one-character strings.                                     *)
(***************************************************************************)
EXTENDS Integers, Sequences, FiniteSets, TLC

\* ------------------------------------------------------------- bounds
\* chapter_range is (1, NumChapters)
NumChapters == 2
\* the longest page list a manifest of the modelled server holds
MaxPages == 2
\* the largest Config.max_concurrent_chapters and Config.max_concurrent_images
MaxConcurrentChapters == 2
MaxConcurrentImages == 2
\* Config.fallback_volume_range is (1, MaxVolume)
MaxVolume == 2

\* -------------------------------------------------- program constants
RetriesChaptersList == 4
RetriesSeriesInfo == 3
RetriesChapterData == 4
RetriesImage == 10
PadWidth == 3

\* Python's None where a number is expected
None == 0 - 1

Chapters == 1..NumChapters

\* ------------------------------------------------------------- text
Digit == <<"0", "1", "2", "3", "4", "5", "6", "7", "8", "9">>

IsDigit(c) == \E d \in 1..10 : Digit[d] = c

DigitVal(c) == (CHOOSE d \in 1..10 : Digit[d] = c) - 1

\* the ordinal of a character: string comparison compares these
Ord(c) ==
  CASE c = "," -> 44
    [] c = "." -> 46
    [] c = "/" -> 47
    [] IsDigit(c) -> 48 + DigitVal(c)
    [] c = ":" -> 58
    [] c = "a" -> 97
    [] c = "b" -> 98
    [] c = "c" -> 99
    [] c = "e" -> 101
    [] c = "g" -> 103
    [] c = "h" -> 104
    [] c = "i" -> 105
    [] c = "j" -> 106
    [] c = "m" -> 109
    [] c = "n" -> 110
    [] c = "p" -> 112
    [] c = "t" -> 116
    [] c = "x" -> 120
    [] OTHER -> 127

\* s < t as Python compares str
RECURSIVE StrLess(_, _)
StrLess(s, t) ==
  IF t = <<>> THEN FALSE
  ELSE IF s = <<>> THEN TRUE
  ELSE IF Ord(Head(s)) # Ord(Head(t)) THEN Ord(Head(s)) < Ord(Head(t))
  ELSE StrLess(Tail(s), Tail(t))

StartsWith(s, p) == Len(s) >= Len(p) /\ SubSeq(s, 1, Len(p)) = p

\* str(n) for n >= 0
RECURSIVE Str(_)
Str(n) == IF n < 10 THEN <<Digit[n + 1]>> ELSE Str(n \div 10) \o <<Digit[(n % 10) + 1]>>

RECURSIVE Zeros(_)
Zeros(k) == IF k <= 0 THEN <<>> ELSE <<"0">> \o Zeros(k - 1)

\* f"{n:0{w}d}": padded to w characters, longer when n has more digits
ZeroPad(n, w) == Zeros(w - Len(Str(n))) \o Str(n)

\* int(s) for a string of digits
RECURSIVE DigitsVal(_)
DigitsVal(s) ==
  IF s = <<>> THEN 0 ELSE 10 * DigitsVal(SubSeq(s, 1, Len(s) - 1)) + DigitVal(s[Len(s)])

AllDigits(s) == \A k \in 1..Len(s) : IsDigit(s[k])

\* float(s), in tenths, for the shapes d+ , d+.d , d+. and .d ; None otherwise
PyFloat(s) ==
  LET dots == {k \in 1..Len(s) : s[k] = "."} IN
  IF s = <<>> THEN None
  ELSE IF dots = {} THEN (IF AllDigits(s) THEN 10 * DigitsVal(s) ELSE None)
  ELSE IF Cardinality(dots) > 1 THEN None
  ELSE LET k == CHOOSE d \in dots : TRUE
           ip == SubSeq(s, 1, k - 1)
           fp == SubSeq(s, k + 1, Len(s))
       IN IF AllDigits(ip) /\ AllDigits(fp) /\ Len(fp) <= 1 /\ Len(ip) + Len(fp) > 0
          THEN 10 * DigitsVal(ip) + DigitsVal(fp)
          ELSE None

Replace(s, a, b) == [k \in 1..Len(s) |-> IF s[k] = a THEN b ELSE s[k]]

_to_float(s) ==
  IF PyFloat(s) # None THEN PyFloat(s) ELSE PyFloat(Replace(s, ",", "."))

\* int(vol) of a volume field given as text; None when it raises
PyInt(s) == IF s # <<>> /\ AllDigits(s) THEN DigitsVal(s) ELSE None

\* float(chapter_num), in tenths
FloatOfInt(n) == 10 * n

\* Path(url).suffix: from the last dot of the last path component, empty when
\* that dot is the component's first or last character
Suffix(url) ==
  LET slashes == {k \in 1..Len(url) : url[k] = "/"}
      from == IF slashes = {} THEN 1 ELSE (CHOOSE k \in slashes : \A j \in slashes : j <= k) + 1
      name == SubSeq(url, from, Len(url))
      dots == {k \in 1..Len(name) : name[k] = "."}
      last == CHOOSE k \in dots : \A j \in dots : j <= k
  IN IF dots = {} THEN <<>>
     ELSE IF last = 1 \/ last = Len(name) THEN <<>>
     ELSE SubSeq(name, last, Len(name))

\* ------------------------------------------------- what the server holds
\* a field the JSON object does not have
Absent == <<"~">>

\* "data" of GET {api_base}/{slug}/chapters: the items of the chapter list
ChapterListBodies ==
  { <<>>,
    << [number |-> <<"1", ",", "0">>, volume |-> Str(MaxVolume)],
       [number |-> <<"1", ".", "5">>, volume |-> <<"1">>],
       [number |-> <<"2">>, volume |-> <<"x">>],
       [number |-> Absent, volume |-> <<"1">>] >> }

\* "data" of GET {api_base}/{slug}: the mappings of the nested structure in
\* the order a depth-first walk meets them, with their number and volume
SeriesBodies ==
  { <<>>,
    << [number |-> Absent, volume |-> Absent],
       [number |-> <<"1">>, volume |-> <<"x">>],
       [number |-> <<"1", ".", "0">>, volume |-> Str(MaxVolume)],
       [number |-> <<"1">>, volume |-> <<"1">>],
       [number |-> <<"2">>, volume |-> <<"1">>] >> }

PagePaths == << <<"/", "a", ".", "j", "p", "g">>,
                <<"/", "/", "i", ".", "m", "e", "/", "b", ".", "p", "n", "g">>,
                <<"c">> >>

\* a page entry that is a mapping with a path
Page(k) == [dict |-> TRUE, path |-> PagePaths[((k - 1) % Len(PagePaths)) + 1]]

\* the chapter manifests: "data" with 0..MaxPages good pages, "data" that is
\* no mapping, a page list with an entry that is no mapping, and one with an
\* entry without a path
ChapterBodies ==
  { [dict |-> TRUE, pages |-> [k \in 1..n |-> Page(k)]] : n \in 0..MaxPages }
  \cup { [dict |-> FALSE, pages |-> <<>>],
         [dict |-> TRUE, pages |-> << [dict |-> FALSE, path |-> <<>>] >>],
         [dict |-> TRUE, pages |-> << [dict |-> FALSE, path |-> <<>>], Page(1) >>],
         [dict |-> TRUE, pages |-> << Page(1), [dict |-> TRUE, path |-> <<>>] >>] }

JsonResponses == {"ok", "429", "err"}
ImageResponses == {"ok", "429", "403", "err", "empty"}

\* ------------------------------------------------------ MangaAPIClient
\* the body of the loop of _get_json at attempt att, the server answering resp
_get_json_attempt(att, retries, resp) ==
  CASE resp = "429" -> "continue"
    [] resp = "err" -> IF att = retries - 1 THEN "raise" ELSE "continue"
    [] OTHER -> "return"

\* _get_json from attempt att on, the server answering its k-th request by
\* rs[k]: how it ends and how many requests it sent; the loop running out
\* raises RuntimeError
RECURSIVE _get_json_from(_, _, _)
_get_json_from(att, retries, rs) ==
  IF att >= retries THEN [outcome |-> "raise", requests |-> att]
  ELSE LET o == _get_json_attempt(att, retries, rs[att + 1]) IN
       IF o = "continue" THEN _get_json_from(att + 1, retries, rs)
       ELSE [outcome |-> o, requests |-> att + 1]

_get_json(retries, rs) == _get_json_from(0, retries, rs)

\* how a call of _get_json with this retry limit can end
JsonOutcomes(retries) == {_get_json(retries, rs).outcome : rs \in [1..retries -> JsonResponses]}

ChaptersListOutcomes == JsonOutcomes(RetriesChaptersList)
SeriesInfoOutcomes == JsonOutcomes(RetriesSeriesInfo)
ChapterDataOutcomes == JsonOutcomes(RetriesChapterData)

\* the mapping fetch_chapters_list builds from the items, later items
\* overwriting earlier ones
RECURSIVE ParseChapters(_, _)
ParseChapters(items, mapping) ==
  IF items = <<>> THEN mapping
  ELSE LET item == Head(items)
           nf == _to_float(item.number)
           vi == PyInt(item.volume)
       IN IF item.number = Absent \/ item.volume = Absent \/ vi = None \/ nf = None
          THEN ParseChapters(Tail(items), mapping)
          ELSE ParseChapters(Tail(items), (nf :> vi) @@ mapping)

\* search(meta) of resolve_volume: the volume of the first mapping whose
\* number equals target and whose volume converts
RECURSIVE search(_, _)
search(meta, target) ==
  IF meta = <<>> THEN None
  ELSE LET obj == Head(meta) IN
       IF /\ obj.number # Absent
          /\ obj.volume # Absent
          /\ _to_float(obj.number) = target
          /\ PyInt(obj.volume) # None
       THEN PyInt(obj.volume)
       ELSE search(Tail(meta), target)

\* what search(meta) had not visited yet when it returned: the mappings after
\* the one whose volume it returned
RECURSIVE Rest(_, _)
Rest(meta, target) ==
  IF meta = <<>> THEN <<>>
  ELSE IF search(<<Head(meta)>>, target) # None THEN Tail(meta)
  ELSE Rest(Tail(meta), target)

\* the body of the loop of download_image at attempt att, the server
\* answering resp
download_image_attempt(att, retries, resp) ==
  CASE resp = "429" -> "continue"
    [] resp = "403" -> IF att < retries - 1 THEN "continue" ELSE "raise"
    [] resp \in {"err", "empty"} -> IF att = retries - 1 THEN "raise" ELSE "continue"
    [] OTHER -> "write"

\* how download_image ends when its loop runs out
download_image_exhausted == "return"

\* download_image from attempt att on, the server answering its k-th request
\* by rs[k]: "write" (the file is written, then it returns), "raise", or
\* "return" without a file when the loop runs out
RECURSIVE download_image_from(_, _, _)
download_image_from(att, retries, rs) ==
  IF att >= retries THEN [outcome |-> download_image_exhausted, requests |-> att]
  ELSE LET o == download_image_attempt(att, retries, rs[att + 1]) IN
       IF o = "continue" THEN download_image_from(att + 1, retries, rs)
       ELSE [outcome |-> o, requests |-> att + 1]

download_image(retries, rs) == download_image_from(0, retries, rs)

\* the answers to the requests of one download_image call: n answers that
\* alternate between a and b, then last for good
ImageAnswers ==
  { [k \in 1..RetriesImage |-> IF k > n THEN last ELSE IF k % 2 = 1 THEN a ELSE b] :
      a \in ImageResponses, b \in ImageResponses, n \in 0..RetriesImage,
      last \in ImageResponses }

\* how a call of download_image can end
ImageOutcomes == {download_image(RetriesImage, rs).outcome : rs \in ImageAnswers}

\* --------------------------------------------------- ChapterDownloader
ImageHost == <<"h", "t", "t", "p", ":", "/", "/", "i", ".", "m", "e">>

\* _build_image_url for a path that is not empty
_build_image_url(path, host) ==
  LET p == IF StartsWith(path, <<"/", "/">>) THEN Tail(path) ELSE path IN
  IF StartsWith(p, <<"h", "t", "t", "p">>) THEN p
  ELSE IF ~StartsWith(p, <<"/">>) THEN host \o <<"/">> \o p
  ELSE host \o p

DictPages(pages) == SelectSeq(pages, LAMBDA p : p.dict)

\* the list urls of download_chapter, for pages whose mappings all have a path
Urls(pages) ==
  [k \in 1..Len(DictPages(pages)) |-> _build_image_url(DictPages(pages)[k].path, ImageHost)]

\* the page lists a manifest can hold, and the list urls for each of them
PageLists == {body.pages : body \in ChapterBodies}

UrlsOf == [pages \in PageLists |-> Urls(pages)]

\* filename of download_task
FileName(idx, url) ==
  ZeroPad(idx, PadWidth) \o (IF Suffix(url) = <<>> THEN <<".", "j", "p", "g">> ELSE Suffix(url))

\* sorted(tmp_dir.iterdir())
RECURSIVE Sorted(_)
Sorted(files) ==
  IF files = {} THEN <<>>
  ELSE LET first == CHOOSE f \in files : \A g \in files \ {f} : StrLess(f, g)
       IN <<first>> \o Sorted(files \ {first})

\* ---------------------------------------------------------------- state
VARIABLES
  cfg,            \* Config: the overrides, cleanup_temp, the concurrency limits
  mpc,            \* where download_chapters is: "prewarm", "gather", "done"
  chapters_map,   \* MangaAPIClient._chapters_map[slug]: set, and the mapping
  series_cache,   \* MangaAPIClient._series_cache[slug]: set, and the value
  csem,           \* free permits of the chapter-level Semaphore
  chap,           \* per chapter: the download_with_limit / download_chapter task
  tmp,            \* per chapter: tmp_dir on disk: exists, and its files
  cbz,            \* per chapter: the archive on disk
  img,            \* per chapter and page position: the download_task
  isem,           \* per chapter: free permits of the image-level Semaphore
  report,         \* what download_chapters returned and printed
  fetch           \* one call of _get_json or download_image, attempt by attempt

vars == <<cfg, mpc, chapters_map, series_cache, csem, chap, tmp, cbz, img, isem, report,
          fetch>>

Pending == "pending"
NoPath == "None"
Path == "Path"
\* the outcome of a download_with_limit whose download_chapter raised
Raised == "Exception"

EmptyMap == <<>>

NoTask == [st |-> "none", name |-> <<>>]

\* the configurations a run is started with
Configs ==
  [volume_override : {None, MaxVolume},
   series_title_override : BOOLEAN,
   cleanup_temp : BOOLEAN,
   max_concurrent_chapters : 1..MaxConcurrentChapters,
   max_concurrent_images : 1..MaxConcurrentImages]

\* no call is followed attempt by attempt
NoFetch ==
  [kind |-> "none", retries |-> 0, attempt |-> 0, pc |-> "idle", requests |-> 0,
   resp |-> "", header |-> <<>>, wait |-> 0, warmups |-> 0, warm |-> "", written |-> FALSE]

\* download_chapters has not started a task yet
NotStarted ==
  /\ mpc = "prewarm"
  /\ chapters_map = [set |-> FALSE, map |-> EmptyMap]
  /\ series_cache = [set |-> FALSE, val |-> <<>>]
  /\ csem = cfg.max_concurrent_chapters
  /\ chap = [c \in Chapters |->
               [pc |-> "waiting", vol |-> None, pages |-> <<>>,
                result |-> Pending, failed |-> "", rlog |-> <<>>, how |-> "",
                rest |-> <<>>]]
  /\ tmp = [c \in Chapters |-> [exists |-> FALSE, files |-> {}]]
  /\ cbz = [c \in Chapters |-> [written |-> FALSE, info |-> FALSE, comicinfo |-> FALSE,
                                images |-> <<>>, pages_count |-> 0]]
  /\ img = [c \in Chapters |-> [k \in 1..MaxPages |-> NoTask]]
  /\ isem = [c \in Chapters |-> 0]
  /\ report = [successful |-> <<>>, failed |-> 0]

Init ==
  /\ cfg \in Configs
  /\ NotStarted
  /\ fetch = NoFetch

\* ------------------------------------------- download_chapter, in pieces
\* download_chapter returns result; its locals are gone, what it printed stays
Returned(rec, result, step) ==
  [rec EXCEPT !.pc = "done", !.result = result, !.failed = step,
              !.vol = None, !.pages = <<>>, !.rlog = <<>>, !.how = "", !.rest = <<>>]

\* mutant: download_chapter without its except clause
RaisePropagates(rec, step) == Returned(rec, Raised, step)

\* the except and return None of download_chapter, after step failed
Raise(rec, step) == Returned(rec, NoPath, step)

\* mutant: resolve_volume returning the volume after the one it fetched
ResolvedUnfetched(rec, v, how) == [rec EXCEPT !.pc = "manifest", !.vol = v + 1, !.how = how]

\* resolve_volume returned v by strategy how; fetch_chapter_data is next
Resolved(rec, v, how) == [rec EXCEPT !.pc = "manifest", !.vol = v, !.how = how]

\* resolve_volume from search(meta) on: the confirming fetch, or the probing
AfterSeriesInfo(rec, c, meta) ==
  LET detected == search(meta, FloatOfInt(c)) IN
  IF detected # None
  THEN [rec EXCEPT !.pc = "confirm", !.vol = detected, !.rlog = @ \o <<"search">>,
                   !.rest = Rest(meta, FloatOfInt(c))]
  ELSE [rec EXCEPT !.pc = "probe", !.vol = 1, !.rlog = @ \o <<"search", "probe">>]

\* mutant: resolve_volume asking for the series metadata before it looks into
\* the index
resolve_volume_meta_first(rec, c) ==
  IF cfg.volume_override # None
  THEN Resolved(rec, cfg.volume_override, "override")
  ELSE IF series_cache.set
       THEN AfterSeriesInfo([rec EXCEPT !.rlog = @ \o <<"series_cached">>], c,
                            series_cache.val)
       ELSE [rec EXCEPT !.pc = "series", !.rlog = @ \o <<"series_fetch">>]

\* resolve_volume up to its first request
resolve_volume(rec, c) ==
  IF cfg.volume_override # None
  THEN Resolved(rec, cfg.volume_override, "override")
  ELSE LET cmap == chapters_map.map
           r1 == [rec EXCEPT !.rlog = @ \o <<"index">>] IN
       IF cmap # EmptyMap /\ FloatOfInt(c) \in DOMAIN cmap
       THEN Resolved(r1, cmap[FloatOfInt(c)], "index")
       ELSE IF series_cache.set
            THEN AfterSeriesInfo([r1 EXCEPT !.rlog = @ \o <<"series_cached">>], c,
                                 series_cache.val)
            ELSE [r1 EXCEPT !.pc = "series", !.rlog = @ \o <<"series_fetch">>]

\* download_chapter from the list of urls on
DeriveUrls(rec) ==
  IF \E k \in 1..Len(rec.pages) : rec.pages[k].dict /\ rec.pages[k].path = <<>>
  THEN Raise(rec, "urls")
  ELSE IF UrlsOf[rec.pages] = <<>> THEN Raise(rec, "urls")
  ELSE [rec EXCEPT !.pc = "gather"]

\* mutant: download_chapter without its checks for an empty page list
ValidateAcceptsEmpty(rec, body) ==
  IF ~body.dict THEN Raise(rec, "validate")
  ELSE [rec EXCEPT !.pc = "gather", !.pages = body.pages]

\* download_chapter from the manifest's arrival to the title's fetch
Validate(rec, body) ==
  IF ~body.dict THEN Raise(rec, "validate")
  ELSE IF body.pages = <<>> THEN Raise(rec, "nopages")
  ELSE LET r1 == [rec EXCEPT !.pages = body.pages] IN
       IF cfg.series_title_override \/ series_cache.set
       THEN DeriveUrls(r1)
       ELSE [r1 EXCEPT !.pc = "title"]

\* the finally of download_chapter
Cleanup(c) ==
  IF cfg.cleanup_temp /\ tmp[c].exists THEN [exists |-> FALSE, files |-> {}] ELSE tmp[c]

\* the tasks download_chapter makes from each list of pages
TasksOf ==
  [pages \in PageLists |->
     [k \in 1..MaxPages |->
        IF k <= Len(UrlsOf[pages])
        THEN [st |-> "waiting", name |-> FileName(k, UrlsOf[pages][k])]
        ELSE NoTask]]

\* the tasks download_chapter hands to gather
Tasks(rec) == TasksOf[rec.pages]

\* the chapter task goes on as rec: into gather with its image tasks, or out
\* of download_chapter (finally, return, release of the chapter permit)
Continue(c, rec) ==
  /\ chap' = [chap EXCEPT ![c] = rec]
  /\ IF rec.pc = "done"
     THEN /\ tmp' = [tmp EXCEPT ![c] = Cleanup(c)]
          /\ csem' = csem + 1
     ELSE UNCHANGED <<tmp, csem>>
  /\ IF rec.pc = "gather"
     THEN /\ img' = [img EXCEPT ![c] = Tasks(rec)]
          /\ isem' = [isem EXCEPT ![c] = cfg.max_concurrent_images]
     ELSE UNCHANGED <<img, isem>>

\* -------------------------------------------------------------- actions
\* download_chapters: fetch_chapters_list fills the cache from the response or,
\* when _get_json raised, with the empty mapping; then the semaphore is made
\* and every download_with_limit is started
PrewarmChaptersList ==
  /\ mpc = "prewarm"
  /\ \E o \in ChaptersListOutcomes :
       IF o = "return"
       THEN \E body \in ChapterListBodies :
              chapters_map' = [set |-> TRUE, map |-> ParseChapters(body, EmptyMap)]
       ELSE chapters_map' = [set |-> TRUE, map |-> EmptyMap]
  /\ mpc' = "gather"
  /\ UNCHANGED <<fetch, cfg, series_cache, csem, chap, tmp, cbz, img, isem, report>>

\* mutant: a semaphore that never blocks
CanAcquireAlways(sem) == TRUE

\* async with sem of download_with_limit and of download_task
CanAcquire(sem) == sem > 0

\* download_with_limit(c) gets a chapter permit; download_chapter makes tmp_dir
\* and runs resolve_volume to its first request. tmp_dir.mkdir stands before
\* the try: when it fails on the disk, download_chapter raises, the permit is
\* given back and gather keeps the exception as the result
StartChapter(c) ==
  /\ mpc = "gather"
  /\ chap[c].pc = "waiting"
  /\ CanAcquire(csem)
  /\ \E r \in {"ok", "oserror"} :
       IF r = "ok"
       THEN /\ csem' = csem - 1
            /\ tmp' = [tmp EXCEPT ![c] = [exists |-> TRUE, files |-> @.files]]
            /\ chap' = [chap EXCEPT ![c] = resolve_volume(@, c)]
       ELSE /\ chap' = [chap EXCEPT ![c] = Returned(@, Raised, "mkdir")]
            /\ UNCHANGED <<csem, tmp>>
  /\ UNCHANGED <<fetch, cfg, mpc, chapters_map, series_cache, cbz, img, isem, report>>

\* fetch_series_info called by resolve_volume: its request ends, the cache
\* is written, resolve_volume goes on
ResolveSeriesInfo(c) ==
  /\ mpc = "gather"
  /\ chap[c].pc = "series"
  /\ \E o \in SeriesInfoOutcomes :
       IF o = "return"
       THEN \E body \in SeriesBodies :
              /\ series_cache' = [set |-> TRUE, val |-> body]
              /\ Continue(c, AfterSeriesInfo(chap[c], c, body))
       ELSE /\ series_cache' = [set |-> TRUE, val |-> <<>>]
            /\ Continue(c, AfterSeriesInfo(chap[c], c, <<>>))
  /\ UNCHANGED <<fetch, cfg, mpc, chapters_map, cbz, report>>

\* resolve_volume: the fetch_chapter_data that confirms detected ends
ResolveConfirm(c) ==
  /\ mpc = "gather"
  /\ chap[c].pc = "confirm"
  /\ \E o \in ChapterDataOutcomes :
       IF o = "return"
       THEN Continue(c, Resolved([chap[c] EXCEPT !.rlog = @ \o <<"confirmed">>,
                                                 !.rest = <<>>],
                                 chap[c].vol, "search"))
       ELSE Continue(c, [chap[c] EXCEPT !.pc = "probe", !.vol = 1, !.rest = <<>>,
                                        !.rlog = @ \o <<"unconfirmed", "probe">>])
  /\ UNCHANGED <<fetch, cfg, mpc, chapters_map, series_cache, cbz, report>>

\* mutant: a probing loop that leaves out every other volume
NextVolumeSkips(vol) == vol + 2

\* for vol in range(start, end + 1): the volume probed after vol
NextVolume(vol) == vol + 1

\* resolve_volume: the fetch_chapter_data that probes volume vol ends
ResolveProbe(c) ==
  /\ mpc = "gather"
  /\ chap[c].pc = "probe"
  /\ \E o \in ChapterDataOutcomes :
       IF o = "return"
       THEN Continue(c, Resolved(chap[c], chap[c].vol, "probe"))
       ELSE IF NextVolume(chap[c].vol) <= MaxVolume
            THEN Continue(c, [chap[c] EXCEPT !.vol = NextVolume(@), !.rlog = @ \o <<"probe">>])
            ELSE Continue(c, Raise(chap[c], "resolve"))
  /\ UNCHANGED <<fetch, cfg, mpc, chapters_map, series_cache, cbz, report>>

\* download_chapter: fetch_chapter_data at the resolved volume ends, then the
\* checks of the manifest
FetchChapterData(c) ==
  /\ mpc = "gather"
  /\ chap[c].pc = "manifest"
  /\ \E o \in ChapterDataOutcomes :
       IF o = "return"
       THEN \E body \in ChapterBodies : Continue(c, Validate(chap[c], body))
       ELSE Continue(c, Raise(chap[c], "manifest"))
  /\ UNCHANGED <<fetch, cfg, mpc, chapters_map, series_cache, cbz, report>>

\* fetch_series_info called by download_chapter for the title: its request
\* ends, the cache is written, download_chapter goes on
TitleSeriesInfo(c) ==
  /\ mpc = "gather"
  /\ chap[c].pc = "title"
  /\ \E o \in SeriesInfoOutcomes :
       IF o = "return"
       THEN \E body \in SeriesBodies : series_cache' = [set |-> TRUE, val |-> body]
       ELSE series_cache' = [set |-> TRUE, val |-> <<>>]
  /\ Continue(c, DeriveUrls(chap[c]))
  /\ UNCHANGED <<fetch, cfg, mpc, chapters_map, cbz, report>>

\* async with sem of download_task: download_image is called
StartImage(c, k) ==
  /\ mpc = "gather"
  /\ img[c][k].st = "waiting"
  /\ CanAcquire(isem[c])
  /\ isem' = [isem EXCEPT ![c] = @ - 1]
  /\ img' = [img EXCEPT ![c][k].st = "active"]
  /\ UNCHANGED <<fetch, cfg, mpc, chapters_map, series_cache, csem, chap, tmp, cbz, report>>

\* a download_task whose download_image returned or raised: gather holds its
\* outcome, and nothing holds it once download_chapter has returned
Ended(c, k, st) == IF chap[c].pc = "done" THEN NoTask ELSE [img[c][k] EXCEPT !.st = st]

\* mutant: a download_task that keeps its permit
ReleaseNothing(sem) == sem

\* the image permit after the download_task left async with sem
Release(sem) == sem + 1

\* download_task: download_image ends (file written and return, exception, or
\* return when the loop ran out) and the permit is released
DownloadImage(c, k) ==
  /\ mpc = "gather"
  /\ img[c][k].st = "active"
  /\ \E o \in ImageOutcomes :
       /\ tmp' = IF o = "write"
                 THEN [tmp EXCEPT ![c] = [exists |-> TRUE,
                                          files |-> @.files \cup {img[c][k].name}]]
                 ELSE tmp
       /\ img' = [img EXCEPT ![c][k] =
                    Ended(c, k, IF o = "raise" THEN "raised" ELSE "returned")]
  /\ isem' = [isem EXCEPT ![c] = Release(@)]
  /\ UNCHANGED <<fetch, cfg, mpc, chapters_map, series_cache, csem, chap, cbz, report>>

N(c) == Len(UrlsOf[chap[c].pages])

\* mutant: a gather that waits for every task whatever one of them raised
GatherNeverRaises(c) == FALSE

\* gather of download_chapter raises the exception of a download_task
GatherRaises(c) == \E k \in 1..N(c) : img[c][k].st = "raised"

\* gather of download_chapter returns: every download_task has returned
GatherReturns(c) == \A k \in 1..N(c) : img[c][k].st = "returned"

\* the tasks that go on running when download_chapter returns
Orphans(c) ==
  [k \in 1..MaxPages |-> IF img[c][k].st \in {"waiting", "active"} THEN img[c][k] ELSE NoTask]

\* the archive _create_cbz writes from tmp_dir
_create_cbz(c) ==
  [written |-> TRUE, info |-> TRUE, comicinfo |-> TRUE,
   images |-> Sorted(tmp[c].files), pages_count |-> N(c)]

\* download_chapter after gather raised
ImageFailed(c) ==
  /\ mpc = "gather"
  /\ chap[c].pc = "gather"
  /\ GatherRaises(c)
  /\ chap' = [chap EXCEPT ![c] = Raise(@, "image")]
  /\ tmp' = [tmp EXCEPT ![c] = Cleanup(c)]
  /\ csem' = csem + 1
  /\ img' = [img EXCEPT ![c] = Orphans(c)]
  /\ UNCHANGED <<fetch, cfg, mpc, chapters_map, series_cache, cbz, isem, report>>

\* download_chapter after gather returned: _create_cbz, which writes the archive
\* or fails on the disk
Archive(c) ==
  /\ mpc = "gather"
  /\ chap[c].pc = "gather"
  /\ GatherReturns(c)
  /\ \E r \in {"ok", "oserror"} :
       IF r = "ok"
       THEN /\ cbz' = [cbz EXCEPT ![c] = _create_cbz(c)]
            /\ chap' = [chap EXCEPT ![c] = Returned(@, Path, "")]
       ELSE /\ chap' = [chap EXCEPT ![c] = Raise(@, "archive")]
            /\ UNCHANGED cbz
  /\ tmp' = [tmp EXCEPT ![c] = Cleanup(c)]
  /\ csem' = csem + 1
  /\ img' = [img EXCEPT ![c] = Orphans(c)]
  /\ UNCHANGED <<fetch, cfg, mpc, chapters_map, series_cache, isem, report>>

\* mutant: download_chapters going on at the first result
AnyGathered == \E c \in Chapters : chap[c].pc = "done"

\* gather of download_chapters has every result
AllGathered == \A c \in Chapters : chap[c].pc = "done"

\* mutant: a batch that one failed chapter aborts
SuccessfulUnlessAborted(n) ==
  IF \E c \in Chapters : chap[c].result = NoPath THEN <<>>
  ELSE [c \in 1..n |-> c]

\* successful of download_chapters, in the order of the range
RECURSIVE Successful(_)
Successful(n) ==
  IF n = 0 THEN <<>>
  ELSE Successful(n - 1) \o (IF chap[n].result = Path THEN <<n>> ELSE <<>>)

\* download_chapters leaves gather, counts and returns
Return ==
  /\ mpc = "gather"
  /\ AllGathered
  /\ mpc' = "done"
  /\ report' = [successful |-> Successful(NumChapters),
                failed |-> NumChapters - Len(Successful(NumChapters))]
  /\ UNCHANGED <<fetch, cfg, chapters_map, series_cache, csem, chap, tmp, cbz, img, isem>>

Next ==
  \/ PrewarmChaptersList
  \/ \E c \in Chapters : StartChapter(c)
  \/ \E c \in Chapters : ResolveSeriesInfo(c)
  \/ \E c \in Chapters : ResolveConfirm(c)
  \/ \E c \in Chapters : ResolveProbe(c)
  \/ \E c \in Chapters : FetchChapterData(c)
  \/ \E c \in Chapters : TitleSeriesInfo(c)
  \/ \E c \in Chapters, k \in 1..MaxPages : StartImage(c, k)
  \/ \E c \in Chapters, k \in 1..MaxPages : DownloadImage(c, k)
  \/ \E c \in Chapters : ImageFailed(c)
  \/ \E c \in Chapters : Archive(c)
  \/ Return

Spec == Init /\ [][Next]_vars

\* the configurations in which a chapter goes through every stage: its volume
\* is resolved and the display title is fetched
FullConfigs ==
  {cf \in Configs : cf.volume_override = None /\ ~cf.series_title_override}

LiveInit == cfg \in FullConfigs /\ NotStarted /\ fetch = NoFetch

\* every request has a timeout (98, 106, 268) and every sleep is finite, so an
\* await of a running call ends, and the event loop runs a task that is
\* ready: a step that can be taken is taken
LiveSpec == LiveInit /\ [][Next]_vars /\ WF_vars(Next)

\* ------------------------------------ one fetch, attempt by attempt
\* The loops of _get_json and download_image taken one await at a time: the
\* request, the warm-up, the sleep before the next attempt. Seconds are
\* counted in hundredths. The branch of _get_json for a ClientResponseError
\* of status 429 is left out: the status 429 has been answered by the
\* continue above it before raise_for_status can raise.
pipeline == <<cfg, mpc, chapters_map, series_cache, csem, chap, tmp, cbz, img, isem, report>>

Min(a, b) == IF a < b THEN a ELSE b

RECURSIVE Pow2(_)
Pow2(n) == IF n = 0 THEN 1 ELSE 2 * Pow2(n - 1)

\* the Retry-After header a response can bear: none, empty, whole seconds, a
\* decimal, a word
RetryAfterHeaders ==
  {Absent, <<>>, <<"0">>, <<"3">>, <<"1", "2">>, <<"1", ".", "5">>, <<"x">>}

\* mutant: the wait of a Retry-After header taken as it is
_get_retry_after_as_sent(ra, attempt) ==
  IF ra # Absent /\ ra # <<>> /\ AllDigits(ra)
  THEN 100 * DigitsVal(ra)
  ELSE 100 * Min(Pow2(attempt), 60) + 10 * attempt

\* _get_retry_after, ra being headers.get("Retry-After")
_get_retry_after(ra, attempt) ==
  IF ra # Absent /\ ra # <<>> /\ AllDigits(ra)
  THEN 100 * DigitsVal(ra) + 100
  ELSE 100 * Min(Pow2(attempt), 60) + 10 * attempt

\* mutant: a warm-up whose failure is not caught
_warm_raises(r) == IF r = "err" THEN "raise" ELSE "return"

\* _warm, the referer answering r: every Exception is passed over
_warm(r) == "return"

\* mutant: a loop that does not count its attempts
NextAttemptStays(attempt) == attempt

\* for attempt in range(retries): the attempt after this one
NextAttempt(attempt) == attempt + 1

\* the calls that are followed: fetch_chapters_list, fetch_series_info and
\* fetch_chapter_data through _get_json, and download_image
Fetches ==
  { [NoFetch EXCEPT !.kind = k.kind, !.retries = k.retries, !.pc = "request"] :
      k \in { [kind |-> "chapters", retries |-> RetriesChaptersList],
              [kind |-> "series", retries |-> RetriesSeriesInfo],
              [kind |-> "chapter", retries |-> RetriesChapterData],
              [kind |-> "image", retries |-> RetriesImage] } }

\* a configuration for the run in which the one call is made
OneConfig ==
  [volume_override |-> None, series_title_override |-> FALSE, cleanup_temp |-> TRUE,
   max_concurrent_chapters |-> 1, max_concurrent_images |-> 1]

FetchInit ==
  /\ cfg = OneConfig
  /\ NotStarted
  /\ fetch \in Fetches

\* what the body of the loop does with the response
Attempt(f, resp) ==
  IF f.kind = "image" THEN download_image_attempt(f.attempt, f.retries, resp)
  ELSE _get_json_attempt(f.attempt, f.retries, resp)

\* session.get(url) and the handling of its response up to the next await
FetchRequest ==
  /\ fetch.pc = "request"
  /\ \E resp \in (IF fetch.kind = "image" THEN ImageResponses ELSE JsonResponses) :
       \E ra \in (IF resp = "429" THEN RetryAfterHeaders ELSE {Absent}) :
         LET o == Attempt(fetch, resp)
             f == [fetch EXCEPT !.requests = @ + 1, !.resp = resp, !.header = ra,
                                !.warmups = 0, !.warm = ""]
         IN fetch' =
              CASE o = "write" -> [f EXCEPT !.pc = "returned", !.written = TRUE]
                [] o = "return" -> [f EXCEPT !.pc = "returned"]
                [] o = "raise" -> [f EXCEPT !.pc = "raised"]
                [] resp = "429" ->
                     [f EXCEPT !.pc = "sleep", !.wait = _get_retry_after(ra, f.attempt)]
                [] resp = "403" -> [f EXCEPT !.pc = "warm"]
                [] OTHER -> [f EXCEPT !.pc = "sleep", !.wait = 20 * (f.attempt + 1)]
  /\ UNCHANGED pipeline

\* await self._warm() of download_image after a 403, and the sleep it goes to
FetchWarm ==
  /\ fetch.pc = "warm"
  /\ \E r \in {"ok", "err"} :
       fetch' = IF _warm(r) = "return"
                THEN [fetch EXCEPT !.pc = "sleep", !.warmups = @ + 1, !.warm = r,
                                   !.wait = 30 * (fetch.attempt + 1)]
                ELSE [fetch EXCEPT !.pc = "raised", !.warmups = @ + 1, !.warm = r]
  /\ UNCHANGED pipeline

\* the sleep ends and the loop goes to its next attempt, or runs out:
\* _get_json raises RuntimeError, download_image ends
FetchSleep ==
  /\ fetch.pc = "sleep"
  /\ LET n == NextAttempt(fetch.attempt)
         f == [fetch EXCEPT !.attempt = n, !.wait = 0] IN
     fetch' =
       IF n < f.retries THEN [f EXCEPT !.pc = "request"]
       ELSE IF f.kind = "image" /\ download_image_exhausted = "return"
            THEN [f EXCEPT !.pc = "returned"]
            ELSE [f EXCEPT !.pc = "raised"]
  /\ UNCHANGED pipeline

FetchNext == FetchRequest \/ FetchWarm \/ FetchSleep

FetchSpec == FetchInit /\ [][FetchNext]_vars

\* --------------------------------------------------------------- claims
Range(seq) == {seq[k] : k \in 1..Len(seq)}

\* C1: isolation. When download_chapters has returned, every chapter none of
\* whose own steps failed has its archive on disk and is in the returned list,
\* whatever happened to the other chapters of the range.
C1_Isolation ==
  mpc = "done" =>
    \A c \in Chapters :
      chap[c].failed = "" => cbz[c].written /\ c \in Range(report.successful)

\* a run that returned with a failed chapter and a successful sibling
C1_Witness ==
  /\ mpc = "done"
  /\ \E c, d \in Chapters :
       /\ chap[c].failed \in {"mkdir", "resolve", "manifest", "image"}
       /\ chap[d].failed = ""
       /\ d \in Range(report.successful)

\* the steps download_chapter runs inside its try
TrySteps == {"resolve", "manifest", "validate", "nopages", "urls", "image", "archive"}

C3_AllOutcomes ==
  /\ [](mpc = "done" =>
          /\ \A c \in Chapters : chap[c].result # Pending
          /\ Range(report.successful) = {c \in Chapters : chap[c].result = Path}
          /\ report.failed = Cardinality({c \in Chapters : chap[c].result # Path})
          /\ Len(report.successful) + report.failed = NumChapters)
  /\ [][\A c \in Chapters :
          chap[c].result # Pending => chap'[c].result = chap[c].result]_vars

\* a run that returned with successes and failures
C3_Witness ==
  /\ mpc = "done"
  /\ report.failed > 0
  /\ Len(report.successful) > 0

\* C4: a download_image call that returned normally has written its file.
C4_ReturnedMeansWritten ==
  \A c \in Chapters, k \in 1..MaxPages :
    img[c][k].st = "returned" => img[c][k].name \in tmp[c].files

\* C5: an archive whose path download_chapter returned holds the two metadata
\* entries and as many image entries as the page count it records.
C5_ArchiveComplete ==
  \A c \in Chapters :
    chap[c].result = Path =>
      /\ cbz[c].info
      /\ cbz[c].comicinfo
      /\ Len(cbz[c].images) = cbz[c].pages_count

\* C6: in an archive whose path download_chapter returned, the i-th image
\* entry is page i, named with its zero-padded position.
C6_PageOrder ==
  \A c \in Chapters :
    chap[c].result = Path =>
      \A i \in 1..cbz[c].pages_count :
        /\ i <= Len(cbz[c].images)
        /\ SubSeq(cbz[c].images[i], 1, PadWidth) = ZeroPad(i, PadWidth)

\* C7: with cleanup enabled, the workspace of a chapter whose download_chapter
\* has returned does not exist.
C7_WorkspaceGone ==
  cfg.cleanup_temp => \A c \in Chapters : chap[c].pc = "done" => ~tmp[c].exists

InProgress == {c \in Chapters : chap[c].pc \notin {"waiting", "done"}}

\* C8: at most max_concurrent_chapters download_chapter calls are in progress.
C8_ChapterBound == Cardinality(InProgress) <= cfg.max_concurrent_chapters

\* the limit is reached while another chapter waits
C8_Witness ==
  /\ Cardinality(InProgress) = cfg.max_concurrent_chapters
  /\ \E c \in Chapters : chap[c].pc = "waiting"

Active(c) == {k \in 1..MaxPages : img[c][k].st = "active"}

\* C9: at most max_concurrent_images download_image calls of one chapter are
\* in progress, and while fewer are, every waiting image of it can start.
C9_ImageBound ==
  \A c \in Chapters :
    /\ Cardinality(Active(c)) <= cfg.max_concurrent_images
    /\ \A k \in 1..MaxPages :
         (/\ mpc = "gather"
          /\ img[c][k].st = "waiting"
          /\ Cardinality(Active(c)) < cfg.max_concurrent_images)
         => ENABLED StartImage(c, k)

\* an image waits at the limit, and an image can start after another ended
C9_Witness ==
  \E c \in Chapters, k, j \in 1..MaxPages :
    /\ img[c][k].st = "waiting"
    /\ img[c][j].st \in {"returned", "raised"}
    /\ Cardinality(Active(c)) < cfg.max_concurrent_images

InIndex(c) == FloatOfInt(c) \in DOMAIN chapters_map.map

\* the lookups of one resolve_volume call come in the order index, series
\* metadata, search, confirmation, probes
Ordered(log) ==
  /\ Len(log) >= 1 => log[1] = "index"
  /\ Len(log) >= 2 => log[2] \in {"series_cached", "series_fetch"}
  /\ Len(log) >= 3 => log[3] = "search"
  /\ Len(log) >= 4 => log[4] \in {"probe", "confirmed", "unconfirmed"}
  /\ \A i \in 5..Len(log) : log[i] = "probe" /\ log[4] # "confirmed"

\* C10: resolve_volume tries override, index, metadata search, probing in this
\* order and stops at the first that succeeds: with an override it makes no
\* lookup and returns the override; for a chapter in the index it returns the
\* entry with no series-metadata lookup and no manifest request; it probes
\* only after a search without a confirmed match.
C10_StrategyOrder ==
  \A c \in Chapters :
    LET r == chap[c] IN
    /\ Ordered(r.rlog)
    /\ cfg.volume_override # None =>
         /\ r.rlog = <<>>
         /\ r.pc \notin {"series", "confirm", "probe"}
         /\ r.pc = "manifest" => r.vol = cfg.volume_override /\ r.how = "override"
    /\ (cfg.volume_override = None /\ InIndex(c) /\ r.pc \notin {"waiting", "done"}) =>
         /\ r.rlog = <<"index">>
         /\ r.pc \notin {"series", "confirm", "probe"}
         /\ r.pc = "manifest" => r.vol = chapters_map.map[FloatOfInt(c)] /\ r.how = "index"
    /\ r.pc = "series" => r.rlog = <<"index", "series_fetch">>
    /\ r.pc = "confirm" => Len(r.rlog) = 3
    /\ r.pc = "probe" =>
         /\ Len(r.rlog) >= 4
         /\ r.rlog[4] \in {"probe", "unconfirmed"}
         /\ r.rlog[Len(r.rlog)] = "probe"
    /\ (r.pc = "manifest" /\ r.how = "search") => r.rlog[Len(r.rlog)] = "confirmed"
    /\ (r.pc = "manifest" /\ r.how = "probe") => r.rlog[Len(r.rlog)] = "probe"

\* a chapter found in the index beside one that went through an unconfirmed
\* search into probing
C10_Witness ==
  \E c, d \in Chapters :
    /\ chap[c].pc = "manifest" /\ chap[c].how = "index"
    /\ chap[d].pc = "probe" /\ "unconfirmed" \in Range(chap[d].rlog)

\* the number of probes a resolve_volume call has sent
ProbeCount(log) == Cardinality({i \in 1..Len(log) : log[i] = "probe"})

\* C11: in the fallback stage resolve_volume probes the volumes of the range
\* in ascending order from its lower end, one probe each: the k-th probe asks
\* for volume k. A probe that succeeds makes it return that volume with no
\* further probe; it fails only when the probe of the last volume failed.
C11_ProbeOrder ==
  /\ [](\A c \in Chapters :
          chap[c].pc = "probe" =>
            /\ chap[c].vol \in 1..MaxVolume
            /\ chap[c].vol = ProbeCount(chap[c].rlog))
  /\ [][\A c \in Chapters :
          (chap[c].pc = "probe" /\ chap'[c] # chap[c]) =>
            /\ chap'[c].pc \in {"probe", "manifest", "done"}
            /\ chap'[c].pc = "probe" => chap'[c].vol = chap[c].vol + 1
            /\ chap'[c].pc = "manifest" =>
                 /\ chap'[c].vol = chap[c].vol
                 /\ chap'[c].how = "probe"
                 /\ chap'[c].rlog = chap[c].rlog
            /\ chap'[c].pc = "done" =>
                 /\ chap'[c].failed = "resolve"
                 /\ chap[c].vol = MaxVolume]_vars

\* a resolve_volume call whose probe of the last volume succeeded after the
\* probes of all lower volumes had failed
C11_Witness ==
  \E c \in Chapters :
    /\ chap[c].pc = "manifest"
    /\ chap[c].how = "probe"
    /\ chap[c].vol = MaxVolume
    /\ ProbeCount(chap[c].rlog) = MaxVolume

\* a manifest whose page list is empty
EmptyManifest == [dict |-> TRUE, pages |-> <<>>]

\* C12: a manifest with zero pages makes download_chapter fail: wherever a
\* manifest can arrive, an empty one ends the call with None; and a chapter
\* that failed so has no image task, no staged file and no archive.
C12_EmptyChapter ==
  \A c \in Chapters :
    /\ chap[c].pc = "manifest" =>
         Validate(chap[c], EmptyManifest) = Raise(chap[c], "nopages")
    /\ chap[c].failed = "nopages" =>
         /\ chap[c].pc = "done"
         /\ chap[c].result = NoPath
         /\ ~cbz[c].written
         /\ tmp[c].files = {}
         /\ \A k \in 1..MaxPages : img[c][k] = NoTask

\* a download_chapter call that got a manifest without pages and returned
C12_Witness ==
  \E c \in Chapters : chap[c].pc = "done" /\ chap[c].failed = "nopages"

FetchEnded(f) == f.pc \in {"returned", "raised"}

\* C13: one call never sends more requests to its URL than its retry limit:
\* at most 4 for the chapter list, 3 for the series metadata, 4 for a chapter
\* manifest and 10 for an image, whatever the responses are.
C13_RequestLimit ==
  /\ fetch.kind = "chapters" => fetch.requests <= 4
  /\ fetch.kind = "series" => fetch.requests <= 3
  /\ fetch.kind = "chapter" => fetch.requests <= 4
  /\ fetch.kind = "image" => fetch.requests <= 10
  /\ fetch.requests <= fetch.retries

\* a download_image call that has sent its tenth request and ended
C13_Witness ==
  /\ fetch.kind = "image"
  /\ fetch.requests = 10
  /\ FetchEnded(fetch)

\* whether a Retry-After header is present with a number of seconds
NumericHeader(ra) == ra # Absent /\ ra # <<>> /\ AllDigits(ra)

\* C14: after a 429 at attempt n the call sleeps before its next attempt: the
\* seconds of Retry-After plus 1.0 when the header is there and numeric, and
\* min(2^n, 60) + 0.1 n otherwise; for _get_json and download_image alike.
C14_RateLimitWait ==
  /\ []((fetch.pc = "sleep" /\ fetch.resp = "429") =>
          IF NumericHeader(fetch.header)
          THEN fetch.wait = 100 * (DigitsVal(fetch.header) + 1)
          ELSE fetch.wait = 100 * Min(2 ^ fetch.attempt, 60) + 10 * fetch.attempt)
  /\ [][(fetch'.requests # fetch.requests /\ fetch'.resp = "429") =>
          (fetch'.pc = "sleep" /\ fetch'.attempt = fetch.attempt)]_vars
  /\ [][fetch'.requests # fetch.requests =>
          (fetch.resp = "429" => fetch.pc = "request" /\ fetch.wait = 0)]_vars

\* a call that sleeps 4.0 s after a 429 with Retry-After: 3
C14_Witness ==
  /\ fetch.pc = "sleep"
  /\ fetch.resp = "429"
  /\ fetch.header = <<"3">>
  /\ fetch.wait = 400

\* C15: when a 403 to download_image is followed by another attempt, exactly
\* one warm-up has been made in between, and a warm-up that failed leads to
\* the same sleep and the same next attempt as one that succeeded.
C15_OneWarmup ==
  /\ []((fetch.pc = "request" /\ fetch.resp = "403") => fetch.warmups = 1)
  /\ [][(fetch.pc = "warm" /\ fetch' # fetch) =>
          /\ fetch'.pc = "sleep"
          /\ fetch'.warmups = 1
          /\ fetch'.attempt = fetch.attempt
          /\ fetch'.requests = fetch.requests]_vars
  /\ [][(fetch.pc = "sleep" /\ fetch.resp = "403" /\ fetch' # fetch) =>
          /\ fetch'.pc = "request"
          /\ fetch'.attempt = fetch.attempt + 1]_vars

\* a download_image call about to retry after a 403 and a failed warm-up
C15_Witness ==
  /\ fetch.pc = "request"
  /\ fetch.resp = "403"
  /\ fetch.warm = "err"
  /\ fetch.warmups = 1

\* C16: when the fetch that confirms a matching node's volume fails, the
\* search goes on with the remaining nodes that match the chapter: probing
\* starts from a failed confirmation only when no node that search had not
\* visited yet matches the chapter number.
C16_SearchContinues ==
  [][\A c \in Chapters :
       (chap[c].pc = "confirm" /\ chap'[c].pc = "probe") =>
         search(chap[c].rest, FloatOfInt(c)) = None]_vars

\* C17: a volume that resolve_volume returns from the metadata search or from
\* probing is the volume of the fetch_chapter_data that has just returned to
\* the same call: it returns out of the confirming fetch with the volume that
\* fetch asked for, and out of a probe with the probed volume, and by no
\* other way.
C17_ReturnedConfirmed ==
  [][\A c \in Chapters :
       (chap'[c].pc = "manifest" /\ chap[c].pc # "manifest"
          /\ chap'[c].how \in {"search", "probe"}) =>
         /\ chap[c].pc \in {"confirm", "probe"}
         /\ chap'[c].vol = chap[c].vol
         /\ chap'[c].how = "search" <=> chap[c].pc = "confirm"
         /\ chap'[c].how = "search" =>
              chap'[c].rlog = chap[c].rlog \o <<"confirmed">>]_vars

\* a volume returned after its confirming fetch beside one returned by a probe
C17_Witness ==
  \E c, d \in Chapters :
    /\ chap[c].pc = "manifest" /\ chap[c].how = "search"
    /\ chap[d].pc = "manifest" /\ chap[d].how = "probe"

\* the chapters whose fetch_series_info call has its request under way
FetchingSeries == {c \in Chapters : chap[c].pc \in {"series", "title"}}

\* C18: the series metadata is fetched by at most one call of
\* fetch_series_info during a run, and a cached value is never overwritten.
C18_CacheOnce ==
  /\ [](Cardinality(FetchingSeries) <= 1)
  /\ [][series_cache.set => series_cache' = series_cache]_vars

\* the download_tasks of a chapter that are inside async with sem
Holding(c) == {k \in 1..MaxPages : img[c][k].st = "active"}

\* C19: download_chapters returns at last, whatever the responses are; when
\* it has returned every chapter permit is back; an image permit is missing
\* from the gate of a chapter only while a download_task of it is inside
\* async with sem, so when the gather of a chapter holds every image every
\* image permit is back and a task that waits at a gate waits for one that runs.
C19_Terminates ==
  /\ <>(mpc = "done")
  /\ [](mpc = "done" => csem = cfg.max_concurrent_chapters)
  /\ [](\A c \in Chapters :
          (chap[c].pc = "gather" \/ Holding(c) # {}) =>
            isem[c] + Cardinality(Holding(c)) = cfg.max_concurrent_images)
  /\ [](\A c \in Chapters :
          (chap[c].pc = "gather" /\ GatherReturns(c)) =>
            isem[c] = cfg.max_concurrent_images)

\* download_chapters has returned from a run in which every chapter failed
C19_Witness ==
  /\ mpc = "done"
  /\ report.failed = NumChapters
  /\ \E c \in Chapters : chap[c].failed = "image"

\* C20: no image download of a chapter runs after its download_chapter has
\* returned: no download_task of it waits or is under way, and no request is
\* sent and no file is written for it afterwards.
C20_NoOrphans ==
  /\ [](\A c \in Chapters :
          (mpc = "gather" /\ chap[c].pc = "done") =>
            \A k \in 1..MaxPages : img[c][k].st \notin {"waiting", "active"})
  /\ [][\A c \in Chapters :
          chap[c].pc = "done" => (img'[c] = img[c] /\ tmp'[c] = tmp[c])]_vars

====
